---- MODULE Spec2Model ----
(***************************************************************************)
(* A model of the two scripts of the drug-app repository:                  *)
(*   scripts/compact_database.py   (the Compactor)                         *)
(*   scripts/download_databases.py (the Fetcher)                           *)
(* JSON values are tagged records, Python dicts are insertion-ordered      *)
(* sequences of key/value pairs, files are sequences of written chunks.    *)
(***************************************************************************)
EXTENDS Integers, Sequences, FiniteSets, TLC

VARIABLES
    kpc, catIn, catOut,                      \* simplify_categories harness
    tpc, drug, trimmed,                      \* trim_drug harness
    cpc, source, target, out, first, idx, cur, exit, runs, target0, opened, \* Compactor
    fpc, env, fs, fs0, call, log, resp, token, result, raised, calls   \* Fetcher

kvars == <<kpc, catIn, catOut>>
tvars == <<tpc, drug, trimmed>>
cvars == <<cpc, source, target, out, first, idx, cur, exit, runs, target0, opened>>
fvars == <<fpc, env, fs, fs0, call, log, resp, token, result, raised, calls>>
vars == <<kvars, tvars, cvars, fvars>>

(***************************************************************************)
(* Bounds of the model                                                     *)
(***************************************************************************)
MaxCats == 2
MaxFields == 2
MaxDrugs == 2
MaxRuns == 2
MaxCookies == 2

(***************************************************************************)
(* Python / JSON values as ijson yields them                               *)
(***************************************************************************)
Null == [t |-> "null"]
Str(s) == [t |-> "str", v |-> s]
Bool(b) == [t |-> "bool", v |-> b]
Num(n) == [t |-> "int", v |-> n]
\* decimal.Decimal with unscaled value m and scale e: m / 10^e
Dec(m, e) == [t |-> "decimal", v |-> <<m, e>>]
List(s) == [t |-> "list", v |-> s]
Dict(s) == [t |-> "dict", v |-> s]
Pair(k, v) == [k |-> k, v |-> v]
\* the outcome of a call that raises instead of returning
Raise(e) == [t |-> "raise", v |-> e]
Unset == [t |-> "unset"]
\* a pair that carries a value
IsSet(p) == p.v # Unset

IsDict(x) == x.t = "dict"
IsList(x) == x.t = "list"
IsStr(x) == x.t = "str"
IsRaise(x) == x.t = "raise"

\* Python truthiness (bool(x)), which `or` and `if label:` use
Truthy(x) ==
    CASE x.t = "null" -> FALSE
      [] x.t = "str" -> x.v # ""
      [] x.t = "bool" -> x.v
      [] x.t = "int" -> x.v # 0
      [] x.t = "decimal" -> x.v[1] # 0
      [] x.t = "list" -> x.v # <<>>
      [] x.t = "dict" -> x.v # <<>>
      [] OTHER -> FALSE

\* key in d
Has(d, k) == \E i \in 1..Len(d.v) : d.v[i].k = k
\* d.get(k, default)
GetD(d, k, default) ==
    IF Has(d, k) THEN d.v[CHOOSE i \in 1..Len(d.v) : d.v[i].k = k].v ELSE default
\* d.get(k)
Get(d, k) == GetD(d, k, Null)
Keys(d) == {d.v[i].k : i \in 1..Len(d.v)}

\* a or b  (Python returns the first truthy operand, else the last)
Or(a, b) == IF Truthy(a) THEN a ELSE b

\* hash(x) raises TypeError for lists and dicts
Unhashable(x) == x.t \in {"list", "dict"}

ESSENTIAL_PROPERTY_KINDS ==
    {"Melting Point", "Water Solubility", "Molecular Weight", "logP", "pKa"}

(***************************************************************************)
(* compact_database.py: the simplify_* helpers and trim_drug               *)
(***************************************************************************)
\* {k: d.get(k) for k in keep if d.get(k) is not None}
RECURSIVE KeepNotNone(_, _)
KeepNotNone(d, keep) ==
    IF keep = <<>> THEN <<>>
    ELSE LET k == Head(keep)
             rest == KeepNotNone(d, Tail(keep))
         IN IF Get(d, k) # Null THEN <<Pair(k, Get(d, k))>> \o rest ELSE rest

DosingKeepKeys ==
    <<"has_dosing", "source", "frequency", "times_per_day", "routes", "instructions">>
OpenfdaKeepKeys ==
    <<"frequency", "times_per_day", "times_per_day_range", "route", "routes", "instructions">>

\* faulty variant: the mapping is passed through unfiltered
simplify_dosing_unfiltered(dosing) ==
    IF ~IsDict(dosing) THEN Dict(<<>>) ELSE dosing
simplify_dosing(dosing) ==
    IF ~IsDict(dosing) THEN Dict(<<>>)
    ELSE LET simplified == KeepNotNone(dosing, DosingKeepKeys)
             openfda_full == Get(dosing, "openfda_full")
         IN IF IsDict(openfda_full)
            THEN Dict(simplified \o
                      <<Pair("openfda_full", Dict(KeepNotNone(openfda_full, OpenfdaKeepKeys)))>>)
            ELSE Dict(simplified)

\* faulty variant: only the keys the entry has are emitted
Reduce3PresentOnly(entry, keys) ==
    Dict(SelectSeq(<<Pair(keys[1], GetD(entry, keys[1], Unset)),
                     Pair(keys[2], GetD(entry, keys[2], Unset)),
                     Pair(keys[3], GetD(entry, keys[3], Unset))>>, IsSet))
\* the dict literal {k: entry.get(k) for the three fixed keys}
Reduce3(entry, keys) ==
    Dict(<<Pair(keys[1], Get(entry, keys[1])),
           Pair(keys[2], Get(entry, keys[2])),
           Pair(keys[3], Get(entry, keys[3]))>>)

RECURSIVE InteractionsLoop(_)
InteractionsLoop(s) ==
    IF s = <<>> THEN <<>>
    ELSE IF ~IsDict(Head(s)) THEN InteractionsLoop(Tail(s))
    ELSE <<Reduce3(Head(s), <<"drugbank_id", "name", "description">>)>>
         \o InteractionsLoop(Tail(s))

simplify_interactions(interactions) ==
    IF ~IsList(interactions) THEN List(<<>>) ELSE List(InteractionsLoop(interactions.v))

RECURSIVE DosagesLoop(_)
DosagesLoop(s) ==
    IF s = <<>> THEN <<>>
    ELSE IF ~IsDict(Head(s)) THEN DosagesLoop(Tail(s))
    ELSE <<Reduce3(Head(s), <<"form", "route", "strength">>)>> \o DosagesLoop(Tail(s))

simplify_dosages(dosages) ==
    IF ~IsList(dosages) THEN List(<<>>) ELSE List(DosagesLoop(dosages.v))

\* prop.get("kind") in ESSENTIAL_PROPERTY_KINDS, for a hashable kind
KindIsEssential(kind) == IsStr(kind) /\ kind.v \in ESSENTIAL_PROPERTY_KINDS

RECURSIVE PropertiesLoop(_)
PropertiesLoop(s) ==
    IF s = <<>> THEN <<>>
    ELSE IF ~IsDict(Head(s)) THEN PropertiesLoop(Tail(s))
    ELSE IF KindIsEssential(Get(Head(s), "kind"))
    THEN <<Reduce3(Head(s), <<"kind", "value", "unit">>)>> \o PropertiesLoop(Tail(s))
    ELSE PropertiesLoop(Tail(s))

\* the set-membership test hashes the kind: a list or dict kind raises TypeError
PropertiesRaise(properties) ==
    /\ IsList(properties)
    /\ \E i \in 1..Len(properties.v) :
          IsDict(properties.v[i]) /\ Unhashable(Get(properties.v[i], "kind"))

simplify_properties(properties) ==
    IF ~IsList(properties) THEN List(<<>>)
    ELSE IF PropertiesRaise(properties) THEN Raise("TypeError")
    ELSE List(PropertiesLoop(properties.v))

\* faulty variant: mesh_id is looked up before category
CategoryLabelMeshFirst(category) ==
    Or(Or(Get(category, "mesh_id"), Get(category, "category")), Get(category, "name"))
\* category.get("category") or category.get("mesh_id") or category.get("name")
CategoryLabel(category) ==
    Or(Or(Get(category, "category"), Get(category, "mesh_id")), Get(category, "name"))

RECURSIVE CategoriesLoop(_)
CategoriesLoop(s) ==
    IF s = <<>> THEN <<>>
    ELSE LET category == Head(s)
             rest == CategoriesLoop(Tail(s))
         IN IF IsDict(category)
            THEN IF Truthy(CategoryLabel(category))
                 THEN <<CategoryLabel(category)>> \o rest
                 ELSE rest
            ELSE IF IsStr(category) THEN <<category>> \o rest
            ELSE rest

simplify_categories(categories) ==
    IF ~IsList(categories) THEN List(<<>>) ELSE List(CategoriesLoop(categories.v))

\* drug.get("drugbank_ids", {}) is anything but a dict: .get raises AttributeError
IdsRaise(d) == ~IsDict(GetD(d, "drugbank_ids", Dict(<<>>)))

trim_drug(d) ==
    IF ~IsDict(d) THEN Raise("AttributeError")
    ELSE IF IdsRaise(d) THEN Raise("AttributeError")
    ELSE IF IsRaise(simplify_properties(Get(d, "experimental_properties")))
    THEN simplify_properties(Get(d, "experimental_properties"))
    ELSE LET ids == GetD(d, "drugbank_ids", Dict(<<>>))
         IN Dict(<<
              Pair("name", Get(d, "name")),
              Pair("drugbank_ids", Dict(<<Pair("primary", Get(ids, "primary")),
                                          Pair("secondary", GetD(ids, "secondary", List(<<>>)))>>)),
              Pair("description", Get(d, "description")),
              Pair("type", Get(d, "type")),
              Pair("groups", GetD(d, "groups", List(<<>>))),
              Pair("categories", simplify_categories(Get(d, "categories"))),
              Pair("mechanism_of_action", Get(d, "mechanism_of_action")),
              Pair("half_life", Get(d, "half_life")),
              Pair("absorption", Get(d, "absorption")),
              Pair("metabolism", Get(d, "metabolism")),
              Pair("food_interactions", GetD(d, "food_interactions", List(<<>>))),
              Pair("drug_interactions", simplify_interactions(Get(d, "drug_interactions"))),
              Pair("experimental_properties",
                   simplify_properties(Get(d, "experimental_properties"))),
              Pair("dosages", simplify_dosages(Get(d, "dosages"))),
              Pair("dosing_info", simplify_dosing(Get(d, "dosing_info")))>>)

(***************************************************************************)
(* Input domains                                                           *)
(***************************************************************************)
SeqsUpTo(S, n) == UNION {[1..m -> S] : m \in 0..n}
\* a dict from a sequence of pairs, the pairs marked Unset left out
MkDict(pairs) == Dict(SelectSeq(pairs, IsSet))

CategoryDicts ==
    {MkDict(<<Pair("category", a), Pair("mesh_id", b), Pair("name", c)>>) :
        a \in {Unset, Str(""), Str("B")},
        b \in {Unset, Null, Str("C")},
        c \in {Unset, Str(""), Str("D")}}
CategoryEntries ==
    CategoryDicts \cup
    {Str("A"), Str(""), Null, Num(7), List(<<Str("A")>>),
     Dict(<<Pair("name", Str("D")), Pair("drugbank_id", Str("DB1")), Pair("category", Str("B"))>>)}
\* the example of the specification's testable properties
SpecExample ==
    List(<<Str("A"), Dict(<<Pair("category", Str("B"))>>),
           Dict(<<Pair("mesh_id", Str("C"))>>), Dict(<<>>)>>)
CategoriesInputs ==
    {List(s) : s \in SeqsUpTo(CategoryEntries, MaxCats)}
    \cup {SpecExample, Null, Str("A"), Dict(<<Pair("category", Str("B"))>>)}

(***************************************************************************)
(* Harness of simplify_categories: one call on a chosen input              *)
(***************************************************************************)
CatIdle == kpc = "off" /\ catIn = Null /\ catOut = Unset
InitCategories == kpc = "input" /\ catIn \in CategoriesInputs /\ catOut = Unset

CallSimplifyCategories ==
    /\ kpc = "input"
    /\ catOut' = simplify_categories(catIn)
    /\ kpc' = "done"
    /\ UNCHANGED catIn
    /\ UNCHANGED <<tvars, cvars, fvars>>

(***************************************************************************)
(* Harness of trim_drug: a source record is built field by field (keys in  *)
(* the order of DrugKeys, at most MaxFields of them), then trimmed once    *)
(***************************************************************************)
ScalarKeys ==
    {"name", "description", "type", "mechanism_of_action", "half_life",
     "absorption", "metabolism"}
\* the keys of the dict literal of trim_drug, in its order
TrimmedKeys ==
    <<"name", "drugbank_ids", "description", "type", "groups", "categories",
      "mechanism_of_action", "half_life", "absorption", "metabolism",
      "food_interactions", "drug_interactions", "experimental_properties",
      "dosages", "dosing_info">>
\* the keys a source record may carry: the retained ones and two others
DrugKeys == TrimmedKeys \o <<"synonyms", "targets">>

Foreign == Dict(<<Pair("x", Str("A"))>>)

FieldChoices(k) ==
    IF k \in ScalarKeys THEN {Null, Str("A"), Foreign}
    ELSE IF k \in {"groups", "food_interactions"}
    THEN {Null, List(<<>>), List(<<Str("A")>>), List(<<Foreign>>)}
    ELSE IF k = "drugbank_ids"
    THEN {Null, Str("DB1"), Dict(<<>>),
          Dict(<<Pair("primary", Str("DB1"))>>),
          Dict(<<Pair("secondary", List(<<Str("DB2")>>)), Pair("primary", Str("DB1"))>>),
          Dict(<<Pair("secondary", Foreign), Pair("tertiary", Str("DB3"))>>)}
    ELSE IF k = "categories"
    THEN {Null, Str("A"), SpecExample,
          List(<<Dict(<<Pair("name", Foreign), Pair("other", Str("A"))>>)>>)}
    ELSE IF k = "drug_interactions"
    THEN {Null, Dict(<<Pair("name", Str("N"))>>), List(<<>>),
          List(<<Dict(<<Pair("drugbank_id", Str("DB2")), Pair("name", Str("N")),
                        Pair("description", Str("D")), Pair("severity", Str("S"))>>)>>),
          List(<<Str("A"), Dict(<<Pair("name", Foreign)>>), Dict(<<>>)>>)}
    ELSE IF k = "experimental_properties"
    THEN {Null, Str("A"),
          List(<<Dict(<<Pair("kind", Str("logP")), Pair("value", Dec(150, 2)),
                        Pair("source", Str("S"))>>)>>),
          List(<<Dict(<<Pair("kind", Str("Boiling Point")), Pair("value", Str("V"))>>),
                 Num(3),
                 Dict(<<Pair("unit", Foreign), Pair("kind", Str("pKa"))>>)>>),
          List(<<Dict(<<Pair("value", Str("V"))>>)>>),
          List(<<Dict(<<Pair("kind", List(<<Str("logP")>>))>>)>>)}
    ELSE IF k = "dosages"
    THEN {Null, Str("A"), List(<<>>),
          List(<<Dict(<<Pair("form", Str("F")), Pair("route", Str("R")),
                        Pair("strength", Str("S")), Pair("country", Str("C"))>>),
                 Null, Dict(<<Pair("route", Foreign)>>)>>)}
    ELSE IF k = "dosing_info"
    THEN {Null, Str("A"), Dict(<<>>),
          Dict(<<Pair("has_dosing", Bool(TRUE)), Pair("source", Null),
                 Pair("label", Str("L"))>>),
          Dict(<<Pair("routes", Foreign), Pair("openfda_full", Str("A"))>>),
          Dict(<<Pair("openfda_full", Dict(<<>>))>>),
          Dict(<<Pair("frequency", Str("F")),
                 Pair("openfda_full",
                      Dict(<<Pair("route", Str("R")), Pair("routes", Null),
                             Pair("raw", Str("W")), Pair("times_per_day", Num(2))>>))>>)}
    ELSE {Null, Str("A")}

TrimIdle == tpc = "off" /\ drug = Dict(<<>>) /\ trimmed = Unset
InitTrim == tpc = "build" /\ drug = Dict(<<>>) /\ trimmed = Unset

KeyIndex(k) == CHOOSE i \in 1..Len(DrugKeys) : DrugKeys[i] = k
LastKeyIndex(d) == IF d.v = <<>> THEN 0 ELSE KeyIndex(d.v[Len(d.v)].k)

\* the next field of the source record
AddField ==
    /\ tpc = "build"
    /\ Len(drug.v) < MaxFields
    /\ \E i \in (LastKeyIndex(drug) + 1)..Len(DrugKeys) :
          \E v \in FieldChoices(DrugKeys[i]) :
              drug' = Dict(Append(drug.v, Pair(DrugKeys[i], v)))
    /\ UNCHANGED <<tpc, trimmed>>
    /\ UNCHANGED <<kvars, cvars, fvars>>

CallTrimDrug ==
    /\ tpc = "build"
    /\ trimmed' = trim_drug(drug)
    /\ tpc' = "done"
    /\ UNCHANGED drug
    /\ UNCHANGED <<kvars, cvars, fvars>>

(***************************************************************************)
(* json.dump(value, out, default=_json_default, separators=(",", ":")):    *)
(* the text written, as a sequence of chunks <<kind, text>>                *)
(***************************************************************************)
Chunk(kind, text) == <<kind, text>>
Punct(text) == Chunk("p", text)

\* float(Decimal): the scale is not kept, 1.50 and 1.5 are the same float
RECURSIVE FloatOf(_, _)
FloatOf(m, e) ==
    IF e > 0 /\ m % 10 = 0 THEN FloatOf(m \div 10, e - 1) ELSE <<m, e>>

\* _json_default: a Decimal becomes a float, anything else its str()
json_default(value) ==
    IF value.t = "decimal"
    THEN Chunk("float", FloatOf(value.v[1], value.v[2]))
    ELSE Chunk("str", value.t)

RECURSIVE Dumps(_)
RECURSIVE DumpItems(_)
RECURSIVE DumpPairs(_)
Dumps(value) ==
    CASE value.t = "null" -> <<Chunk("lit", "null")>>
      [] value.t = "bool" -> <<Chunk("lit", IF value.v THEN "true" ELSE "false")>>
      [] value.t = "str" -> <<Chunk("str", value.v)>>
      [] value.t = "int" -> <<Chunk("int", value.v)>>
      [] value.t = "list" -> <<Punct("[")>> \o DumpItems(value.v) \o <<Punct("]")>>
      [] value.t = "dict" -> <<Punct("{")>> \o DumpPairs(value.v) \o <<Punct("}")>>
      [] OTHER -> <<json_default(value)>>
DumpItems(s) ==
    IF s = <<>> THEN <<>>
    ELSE IF Len(s) = 1 THEN Dumps(s[1])
    ELSE Dumps(s[1]) \o <<Punct(",")>> \o DumpItems(Tail(s))
DumpPairs(s) ==
    IF s = <<>> THEN <<>>
    ELSE <<Chunk("str", s[1].k), Punct(":")>> \o Dumps(s[1].v)
         \o (IF Len(s) = 1 THEN <<>> ELSE <<Punct(",")>> \o DumpPairs(Tail(s)))

(***************************************************************************)
(* compact_database.py main(): files and runs                              *)
(***************************************************************************)
RawHeader == Punct("{\"metadata\":")
RawDrugs == Punct(",\"drugs\":[")
RawComma == Punct(",")
RawClose == Punct("]}")

AbsentFile == [exists |-> FALSE, content |-> <<>>]
File(content) == [exists |-> TRUE, content |-> content]
\* the target holds a whole document: its last chunk is the closing "]}"
Complete(f) == f.exists /\ f.content # <<>> /\ f.content[Len(f.content)] = RawClose
Partial(f) == f.exists /\ ~Complete(f)

Metadatas ==
    {Unset, Dict(<<>>),
     Dict(<<Pair("version", Str("5.1")), Pair("count", Num(2)), Pair("score", Dec(150, 2))>>)}
\* the items of the source's drugs array
DrugItems ==
    {Dict(<<Pair("name", Str("A"))>>),
     Dict(<<Pair("name", Str("B")), Pair("synonyms", List(<<Str("b")>>)),
            Pair("categories", List(<<Dict(<<Pair("mesh_id", Str("C"))>>)>>))>>),
     Dict(<<Pair("name", Str("C")), Pair("drugbank_ids", Str("DB3"))>>),
     Str("A")}
\* a source file: no metadata key (Unset), the items of drugs, and whether the
\* text breaks off after the last item (malformed JSON); metadata precedes drugs
Sources ==
    {[exists |-> FALSE, meta |-> Unset, drugs |-> <<>>, truncated |-> FALSE]}
    \cup {[exists |-> TRUE, meta |-> m, drugs |-> d, truncated |-> tr] :
            m \in Metadatas, d \in SeqsUpTo(DrugItems, MaxDrugs), tr \in BOOLEAN}
Targets ==
    {AbsentFile, File(<<>>), File(<<Chunk("str", "garbage")>>),
     File(<<RawHeader, Punct("{"), Punct("}"), RawDrugs, RawClose>>)}

CompactorIdle ==
    /\ cpc = "off" /\ source = [exists |-> FALSE, meta |-> Unset, drugs |-> <<>>, truncated |-> FALSE]
    /\ target = AbsentFile /\ out = <<>> /\ first = TRUE /\ idx = 0 /\ cur = Unset
    /\ exit = "none" /\ runs = <<>> /\ target0 = AbsentFile /\ opened = FALSE

InitCompactor ==
    /\ cpc = "start"
    /\ source \in Sources
    /\ target \in Targets
    /\ target0 = target
    /\ out = <<>> /\ first = TRUE /\ idx = 0 /\ cur = Unset
    /\ exit = "none" /\ runs = <<>> /\ opened = FALSE

\* the run ends: nothing of its locals is left
Exit(code) ==
    /\ cpc' = "exited"
    /\ exit' = code
    /\ out' = <<>> /\ first' = TRUE /\ idx' = 0 /\ cur' = Unset

\* an exception leaves the with-block of the target: the file is closed with all
\* that was written, and the exception ends the run
RaiseInWith(code) ==
    /\ target' = File(out)
    /\ Exit(code)

\* faulty variant: a missing source is not reported
CheckSourceNoRaise ==
    /\ cpc = "start"
    /\ cpc' = "check_target"
    /\ UNCHANGED <<out, first, idx, cur, exit>>
    /\ UNCHANGED <<source, target, runs, target0, opened>>
    /\ UNCHANGED <<kvars, tvars, fvars>>
CheckSource ==
    /\ cpc = "start"
    /\ IF ~source.exists
       THEN Exit("FileNotFoundError")
       ELSE cpc' = "check_target" /\ UNCHANGED <<out, first, idx, cur, exit>>
    /\ UNCHANGED <<source, target, runs, target0, opened>>
    /\ UNCHANGED <<kvars, tvars, fvars>>

\* faulty variant: an existing target is regenerated
CheckTargetNoSkip ==
    /\ cpc = "check_target"
    /\ cpc' = "read_metadata"
    /\ UNCHANGED <<out, first, idx, cur, exit>>
    /\ UNCHANGED <<source, target, runs, target0, opened>>
    /\ UNCHANGED <<kvars, tvars, fvars>>
CheckTarget ==
    /\ cpc = "check_target"
    /\ IF target.exists
       THEN Exit("ok")
       ELSE cpc' = "read_metadata" /\ UNCHANGED <<out, first, idx, cur, exit>>
    /\ UNCHANGED <<source, target, runs, target0, opened>>
    /\ UNCHANGED <<kvars, tvars, fvars>>

\* next(ijson.items(f, "metadata"))
ReadMetadata ==
    /\ cpc = "read_metadata"
    /\ IF source.meta = Unset
       THEN Exit(IF source.truncated THEN "IncompleteJSONError" ELSE "StopIteration")
       ELSE cpc' = "open" /\ UNCHANGED <<out, first, idx, cur, exit>>
    /\ UNCHANGED <<source, target, runs, target0, opened>>
    /\ UNCHANGED <<kvars, tvars, fvars>>

\* TARGET.open("w"): the file is created, or emptied
OpenTarget ==
    /\ cpc = "open"
    /\ target' = File(<<>>)
    /\ opened' = TRUE
    /\ out' = <<>>
    /\ cpc' = "header"
    /\ UNCHANGED <<source, first, idx, cur, exit, runs, target0>>
    /\ UNCHANGED <<kvars, tvars, fvars>>

WriteHeader ==
    /\ cpc = "header"
    /\ out' = Append(out, RawHeader)
    /\ cpc' = "dump_metadata"
    /\ UNCHANGED <<source, target, first, idx, cur, exit, runs, target0, opened>>
    /\ UNCHANGED <<kvars, tvars, fvars>>

DumpMetadata ==
    /\ cpc = "dump_metadata"
    /\ out' = out \o Dumps(source.meta)
    /\ cpc' = "drugs_open"
    /\ UNCHANGED <<source, target, first, idx, cur, exit, runs, target0, opened>>
    /\ UNCHANGED <<kvars, tvars, fvars>>

WriteDrugsOpen ==
    /\ cpc = "drugs_open"
    /\ out' = Append(out, RawDrugs)
    /\ first' = TRUE
    /\ idx' = 0
    /\ cpc' = "loop"
    /\ UNCHANGED <<source, target, cur, exit, runs, target0, opened>>
    /\ UNCHANGED <<kvars, tvars, fvars>>

\* one step of `for drug in ijson.items(f, "drugs.item")`, with trim_drug
NextDrug ==
    /\ cpc = "loop"
    /\ IF idx < Len(source.drugs)
       THEN IF IsRaise(trim_drug(source.drugs[idx + 1]))
            THEN RaiseInWith(trim_drug(source.drugs[idx + 1]).v)
            ELSE /\ cur' = trim_drug(source.drugs[idx + 1])
                 /\ idx' = idx + 1
                 /\ cpc' = "comma"
                 /\ UNCHANGED <<target, out, first, exit>>
       ELSE IF source.truncated
            THEN RaiseInWith("IncompleteJSONError")
            ELSE cpc' = "close_array" /\ UNCHANGED <<target, out, first, idx, cur, exit>>
    /\ UNCHANGED <<source, runs, target0, opened>>
    /\ UNCHANGED <<kvars, tvars, fvars>>

\* faulty variant: the comma is written before the first record too
WriteCommaAlways ==
    /\ cpc = "comma"
    /\ out' = Append(out, RawComma)
    /\ cpc' = "dump_drug"
    /\ UNCHANGED <<source, target, first, idx, cur, exit, runs, target0, opened>>
    /\ UNCHANGED <<kvars, tvars, fvars>>
WriteComma ==
    /\ cpc = "comma"
    /\ out' = IF ~first THEN Append(out, RawComma) ELSE out
    /\ cpc' = "dump_drug"
    /\ UNCHANGED <<source, target, first, idx, cur, exit, runs, target0, opened>>
    /\ UNCHANGED <<kvars, tvars, fvars>>

DumpDrug ==
    /\ cpc = "dump_drug"
    /\ out' = out \o Dumps(cur)
    /\ first' = FALSE
    /\ cpc' = "loop"
    /\ UNCHANGED <<source, target, idx, cur, exit, runs, target0, opened>>
    /\ UNCHANGED <<kvars, tvars, fvars>>

WriteClose ==
    /\ cpc = "close_array"
    /\ out' = Append(out, RawClose)
    /\ cpc' = "close_file"
    /\ UNCHANGED <<source, target, first, idx, cur, exit, runs, target0, opened>>
    /\ UNCHANGED <<kvars, tvars, fvars>>

\* the with-block ends: the file is closed, then the size is reported
CloseTarget ==
    /\ cpc = "close_file"
    /\ target' = File(out)
    /\ Exit("ok")
    /\ UNCHANGED <<source, runs, target0, opened>>
    /\ UNCHANGED <<kvars, tvars, fvars>>

FileOpen == cpc \in {"header", "dump_metadata", "drugs_open", "loop", "comma",
                     "dump_drug", "close_array", "close_file"}
Prefixes(s) == {SubSeq(s, 1, n) : n \in 0..Len(s)}

\* the process is terminated from outside: of what was written to the open file,
\* some flushed prefix is on disk
Interrupt ==
    /\ cpc \notin {"off", "exited"}
    /\ IF FileOpen
       THEN \E p \in Prefixes(out) : target' = File(p)
       ELSE UNCHANGED target
    /\ Exit("killed")
    /\ UNCHANGED <<source, runs, target0, opened>>
    /\ UNCHANGED <<kvars, tvars, fvars>>

\* the script is run again
Rerun ==
    /\ cpc = "exited"
    /\ Len(runs) + 1 < MaxRuns
    /\ runs' = Append(runs, exit)
    /\ cpc' = "start"
    /\ exit' = "none"
    /\ target0' = target
    /\ opened' = FALSE
    /\ UNCHANGED <<source, target, out, first, idx, cur>>
    /\ UNCHANGED <<kvars, tvars, fvars>>

(***************************************************************************)
(* download_databases.py: URLs, cookies and responses                      *)
(***************************************************************************)
\* A URL, by what the two patterns of extract_drive_file_id capture in it:
\* file_d is the group of  https://drive\.google\.com/file/d/([^/]+)/  and
\* query_id the group of  id=([^&]+)  ("" when the pattern does not match).
Url(base, file_d, query_id) == [base |-> base, file_d |-> file_d, query_id |-> query_id]
NoneUrl == Url("None", "", "")
EmptyUrl == Url("", "", "")
DEFAULT_COMPACT_URL ==
    Url("https://drive.google.com/file/d/", "12o_cdObA01lxXJMY8LjCqlPVrXF56bZF", "")
DirectUrl == Url("https://example.org/db.json", "", "")
OpenIdUrl == Url("https://drive.google.com/open", "", "ABC123")
\* `not url`
UrlFalsy(url) == url \in {NoneUrl, EmptyUrl}

NoId == ""
extract_drive_file_id(url) ==
    IF url.file_d # "" THEN url.file_d
    ELSE IF url.query_id # "" THEN url.query_id
    ELSE NoId

build_drive_download_url(file_id) ==
    Url("https://drive.google.com/uc?export=download", "", file_id)

DownloadUrl(url) ==
    IF extract_drive_file_id(url) # NoId
    THEN build_drive_download_url(extract_drive_file_id(url))
    ELSE url

\* A cookie key, as its first 16 characters and the rest: "download_warning"
\* has 16 characters, so key.startswith("download_warning") reads the head.
Cookie(head, rest, value) == [head |-> head, rest |-> rest, value |-> value]
StartsWithDownloadWarning(c) == c.head = "download_warning"
CookieKeys == {<<"download_warning", "_a">>, <<"download_warning", "_b">>, <<"NID", "">>}
CookieValues == {Str(""), Str("t1"), Str("t2")}
Cookies(k) == {Cookie(k[1], k[2], v) : v \in CookieValues}
\* a cookie jar: cookies of distinct keys, in the order the jar iterates them
CookieJars ==
    {j \in SeqsUpTo(UNION {Cookies(k) : k \in CookieKeys}, MaxCookies) :
        \A a, b \in 1..Len(j) : a # b => <<j[a].head, j[a].rest>> # <<j[b].head, j[b].rest>>}

\* faulty variant: the loop has no break, the last key with the prefix wins
FindTokenLast(cookies) ==
    LET hits == {i \in 1..Len(cookies) : StartsWithDownloadWarning(cookies[i])}
    IN IF hits = {} THEN Null
       ELSE cookies[CHOOSE i \in hits : \A j \in hits : i >= j].value
\* for key, value in response.cookies.items(): the first key with the prefix
\* sets the token and ends the loop; None when there is none
FindToken(cookies) ==
    LET hits == {i \in 1..Len(cookies) : StartsWithDownloadWarning(cookies[i])}
    IN IF hits = {} THEN Null
       ELSE cookies[CHOOSE i \in hits : \A j \in hits : i <= j].value

Statuses == {200, 403, 500}
\* response.raise_for_status() raises HTTPError for 4xx and 5xx
StatusRaises(status) == 400 <= status /\ status < 600

\* the chunks iter_content yields for the n-th response; "" is an empty chunk
Body(n) == IF n = 1 THEN <<"a1", "", "a2">> ELSE <<"b1", "b2">>
NotEmptyChunk(c) == c # ""
\* for chunk in ...: if chunk: f.write(chunk)
Written(body) == SelectSeq(body, NotEmptyChunk)

NoResponse == [n |-> 0, status |-> 0, cookies |-> <<>>]
Response(n, status, cookies) == [n |-> n, status |-> status, cookies |-> cookies]
NoParams == Null
\* a request issued, with the response it got (NoResponse: the request raised)
Request(url, params, response) == [url |-> url, params |-> params, resp |-> response]

(***************************************************************************)
(* download_databases.py: main, ensure_file, download_file                 *)
(***************************************************************************)
NoCall == [target |-> "none", url |-> NoneUrl, io |-> "none"]
FetcherIdle ==
    /\ fpc = "off" /\ env = [COMPACT_DATABASE_URL |-> NoneUrl, DATABASE_URL |-> NoneUrl]
    /\ fs = [compact |-> AbsentFile, full |-> AbsentFile] /\ fs0 = fs
    /\ call = NoCall /\ log = <<>> /\ resp = NoResponse /\ token = Null
    /\ result = "none" /\ raised = "none" /\ calls = <<>>

Present == File(<<"old">>)
InitFetcher ==
    /\ fpc = "main_compact"
    /\ env \in [COMPACT_DATABASE_URL : {NoneUrl, EmptyUrl, DirectUrl, OpenIdUrl},
                DATABASE_URL : {NoneUrl, EmptyUrl, DirectUrl}]
    /\ fs \in [compact : {AbsentFile, Present}, full : {AbsentFile, Present}]
    /\ fs0 = fs
    /\ call = NoCall /\ log = <<>> /\ resp = NoResponse /\ token = Null
    /\ result = "none" /\ raised = "none" /\ calls = <<>>

\* os.getenv(name, default)
GetEnv(name, default) == IF env[name] = NoneUrl THEN default ELSE env[name]

\* a call of ensure_file(target, url) begins
Enter(tgt, url) ==
    /\ call' = [target |-> tgt, url |-> url, io |-> "none"]
    /\ calls' = Append(calls, tgt)
    /\ fs0' = fs
    /\ log' = <<>> /\ resp' = NoResponse /\ token' = Null /\ result' = "none"
    /\ fpc' = "ensure"
    /\ UNCHANGED <<env, fs, raised>>

MainCompact ==
    /\ fpc = "main_compact"
    /\ Enter("compact", GetEnv("COMPACT_DATABASE_URL", DEFAULT_COMPACT_URL))
    /\ UNCHANGED <<kvars, tvars, cvars>>

MainFull ==
    /\ fpc = "main_full"
    /\ Enter("full", GetEnv("DATABASE_URL", NoneUrl))
    /\ UNCHANGED <<kvars, tvars, cvars>>

\* faulty variant: an existing target is downloaded again
EnsureFileNoExistsCheck ==
    /\ fpc = "ensure"
    /\ fpc' = IF UrlFalsy(call.url) THEN "ensure_return" ELSE "dl_first"
    /\ UNCHANGED <<env, fs, fs0, call, log, resp, token, result, raised, calls>>
    /\ UNCHANGED <<kvars, tvars, cvars>>
\* the checks of ensure_file before download_file
EnsureFile ==
    /\ fpc = "ensure"
    /\ fpc' = IF fs[call.target].exists THEN "ensure_return"
              ELSE IF UrlFalsy(call.url) THEN "ensure_return"
              ELSE "dl_first"
    /\ UNCHANGED <<env, fs, fs0, call, log, resp, token, result, raised, calls>>
    /\ UNCHANGED <<kvars, tvars, cvars>>

\* faulty variant: the exception leaves download_file and ends main
ExceptPropagates(exc) ==
    /\ raised' = exc
    /\ fpc' = "done"
    /\ UNCHANGED result
\* the except clause of download_file: report, return False
Except(exc) ==
    /\ result' = "False"
    /\ fpc' = "dl_return"
    /\ UNCHANGED raised

\* session.get(download_url, stream=True)
FirstRequest ==
    /\ fpc = "dl_first"
    /\ \/ /\ log' = Append(log, Request(DownloadUrl(call.url), NoParams, NoResponse))
          /\ Except("ConnectionError")
          /\ UNCHANGED resp
       \/ \E st \in Statuses, j \in CookieJars :
            /\ log' = Append(log, Request(DownloadUrl(call.url), NoParams, Response(1, st, j)))
            /\ resp' = Response(1, st, j)
            /\ fpc' = "dl_cookies"
            /\ UNCHANGED <<result, raised>>
    /\ UNCHANGED <<env, fs, fs0, call, token, calls>>
    /\ UNCHANGED <<kvars, tvars, cvars>>

ScanCookies ==
    /\ fpc = "dl_cookies"
    /\ token' = FindToken(resp.cookies)
    /\ fpc' = IF Truthy(FindToken(resp.cookies)) THEN "dl_second" ELSE "dl_status"
    /\ UNCHANGED <<env, fs, fs0, call, log, resp, result, raised, calls>>
    /\ UNCHANGED <<kvars, tvars, cvars>>

\* session.get(download_url, params={"confirm": token}, stream=True)
SecondRequest ==
    /\ fpc = "dl_second"
    /\ \/ /\ log' = Append(log, Request(DownloadUrl(call.url),
                                        Dict(<<Pair("confirm", token)>>), NoResponse))
          /\ Except("ConnectionError")
          /\ UNCHANGED resp
       \/ \E st \in Statuses :
            /\ log' = Append(log, Request(DownloadUrl(call.url),
                                          Dict(<<Pair("confirm", token)>>),
                                          Response(2, st, <<>>)))
            /\ resp' = Response(2, st, <<>>)
            /\ fpc' = "dl_status"
            /\ UNCHANGED <<result, raised>>
    /\ UNCHANGED <<env, fs, fs0, call, token, calls>>
    /\ UNCHANGED <<kvars, tvars, cvars>>

RaiseForStatus ==
    /\ fpc = "dl_status"
    /\ IF StatusRaises(resp.status)
       THEN Except("HTTPError")
       ELSE fpc' = "dl_open" /\ UNCHANGED <<result, raised>>
    /\ UNCHANGED <<env, fs, fs0, call, log, resp, token, calls>>
    /\ UNCHANGED <<kvars, tvars, cvars>>

\* target.parent.mkdir(...); open(target, "wb"): either may raise OSError
OpenForWrite ==
    /\ fpc = "dl_open"
    /\ \/ /\ Except("OSError")
          /\ call' = [call EXCEPT !.io = "error"]
          /\ UNCHANGED fs
       \/ /\ fs' = [fs EXCEPT ![call.target] = File(<<>>)]
          /\ fpc' = "dl_write"
          /\ UNCHANGED <<call, result, raised>>
    /\ UNCHANGED <<env, fs0, log, resp, token, calls>>
    /\ UNCHANGED <<kvars, tvars, cvars>>

\* the chunk loop: all chunks are written, or reading or writing raises part-way
WriteChunks ==
    /\ fpc = "dl_write"
    /\ \/ /\ fs' = [fs EXCEPT ![call.target] = File(Written(Body(resp.n)))]
          /\ fpc' = "dl_stat"
          /\ call' = [call EXCEPT !.io = "ok"]
          /\ UNCHANGED <<result, raised>>
       \/ \E p \in Prefixes(Written(Body(resp.n))) :
            /\ fs' = [fs EXCEPT ![call.target] = File(p)]
            /\ call' = [call EXCEPT !.io = "error"]
            /\ Except("OSError")
    /\ UNCHANGED <<env, fs0, log, resp, token, calls>>
    /\ UNCHANGED <<kvars, tvars, cvars>>

\* the size is reported and download_file returns True
ReturnTrue ==
    /\ fpc = "dl_stat"
    /\ result' = "True"
    /\ fpc' = "dl_return"
    /\ UNCHANGED <<env, fs, fs0, call, log, resp, token, raised, calls>>
    /\ UNCHANGED <<kvars, tvars, cvars>>

\* ensure_file drops what download_file returned
EnsureReturn ==
    /\ fpc = "dl_return"
    /\ fpc' = "ensure_return"
    /\ UNCHANGED <<env, fs, fs0, call, log, resp, token, result, raised, calls>>
    /\ UNCHANGED <<kvars, tvars, cvars>>

\* main goes on after a call of ensure_file
MainNext ==
    /\ fpc = "ensure_return"
    /\ fpc' = IF call.target = "compact" THEN "main_full" ELSE "done"
    /\ UNCHANGED <<env, fs, fs0, call, log, resp, token, result, raised, calls>>
    /\ UNCHANGED <<kvars, tvars, cvars>>

(***************************************************************************)
(* Specifications                                                          *)
(***************************************************************************)
InitCategoriesOnly == InitCategories /\ TrimIdle /\ CompactorIdle /\ FetcherIdle
NextCategories == CallSimplifyCategories
SpecCategories == InitCategoriesOnly /\ [][NextCategories]_vars

InitTrimOnly == CatIdle /\ InitTrim /\ CompactorIdle /\ FetcherIdle
NextTrim == AddField \/ CallTrimDrug
SpecTrim == InitTrimOnly /\ [][NextTrim]_vars

InitCompactorOnly == CatIdle /\ TrimIdle /\ InitCompactor /\ FetcherIdle
NextCompactor ==
    \/ CheckSource \/ CheckTarget \/ ReadMetadata \/ OpenTarget \/ WriteHeader
    \/ DumpMetadata \/ WriteDrugsOpen \/ NextDrug \/ WriteComma \/ DumpDrug
    \/ WriteClose \/ CloseTarget \/ Interrupt \/ Rerun
SpecCompactor == InitCompactorOnly /\ [][NextCompactor]_vars

InitFetcherOnly == CatIdle /\ TrimIdle /\ CompactorIdle /\ InitFetcher
NextFetcher ==
    \/ MainCompact \/ MainFull \/ EnsureFile \/ FirstRequest \/ ScanCookies
    \/ SecondRequest \/ RaiseForStatus \/ OpenForWrite \/ WriteChunks
    \/ ReturnTrue \/ EnsureReturn \/ MainNext
SpecFetcher == InitFetcherOnly /\ [][NextFetcher]_vars

(***************************************************************************)
(* Properties of the Compactor (SpecCompactor)                             *)
(***************************************************************************)
Ended == cpc = "exited" /\ exit # "killed"

\* the records of the output: a comma before every record except the first
RECURSIVE JoinedRecords(_)
JoinedRecords(items) ==
    IF items = <<>> THEN <<>>
    ELSE JoinedRecords(SubSeq(items, 1, Len(items) - 1))
         \o (IF Len(items) > 1 THEN <<RawComma>> ELSE <<>>)
         \o Dumps(trim_drug(items[Len(items)]))
ExpectedOutput(src) ==
    <<RawHeader>> \o Dumps(src.meta) \o <<RawDrugs>> \o JoinedRecords(src.drugs) \o <<RawClose>>

\* a drug record as the data model types it, as far as trim_drug depends on it
WellFormedDrug(d) ==
    /\ IsDict(d)
    /\ Has(d, "drugbank_ids") => IsDict(Get(d, "drugbank_ids"))
    /\ IsList(Get(d, "experimental_properties")) =>
          \A i \in 1..Len(Get(d, "experimental_properties").v) :
              LET prop == Get(d, "experimental_properties").v[i]
              IN IsDict(prop) => Get(prop, "kind").t \in {"null", "str"}
WellFormed(src) ==
    /\ src.exists /\ src.meta # Unset /\ ~src.truncated
    /\ \A i \in 1..Len(src.drugs) : WellFormedDrug(src.drugs[i])

\* C1, as stated: every run that starts with the target present completes
\* successfully as a no-op that leaves the target as it was.
C1_TargetPresentRunSucceeds ==
    (Ended /\ target0.exists) => (exit = "ok" /\ ~opened /\ target = target0)

\* C1, amended: a run that starts with the target present never opens it for
\* writing and leaves it as it was; it completes successfully as a no-op when the
\* source exists, and fails with FileNotFoundError when the source is missing.
C1_TargetPresentNeverRewritten ==
    /\ target0.exists => (~opened /\ target = target0)
    /\ (Ended /\ target0.exists) =>
          exit = (IF source.exists THEN "ok" ELSE "FileNotFoundError")

\* a second run after a first one that wrote the whole document
C1_Witness ==
    /\ runs = <<"ok">> /\ cpc = "exited" /\ exit = "ok"
    /\ Len(source.drugs) >= 1
    /\ target0 = File(ExpectedOutput(source))
    /\ target = target0 /\ ~opened

\* C2: a missing source makes the run fail with FileNotFoundError whatever the
\* target is, and the target is neither created nor modified; a run on an
\* existing, well-formed source ends without error.
C2_MissingSourceFails ==
    /\ ~source.exists => (~opened /\ target = target0)
    /\ (Ended /\ ~source.exists) => exit = "FileNotFoundError"
    /\ (Ended /\ WellFormed(source)) => exit = "ok"

C2_Witness ==
    /\ cpc = "exited" /\ exit = "FileNotFoundError"
    /\ ~source.exists /\ target0.exists /\ target = target0

\* C3: with the source present and the target absent, the completed output is
\* the header, the metadata, the records in source order with a comma before
\* every record except the first, and the closing "]}" once, at the end.
C3_OutputShape ==
    (cpc = "exited" /\ exit = "ok" /\ ~target0.exists) =>
        target = File(ExpectedOutput(source))

C3_Witness ==
    /\ cpc = "exited" /\ exit = "ok" /\ ~target0.exists
    /\ Len(source.drugs) = 2
    /\ target = File(ExpectedOutput(source))

\* C9: a run interrupted after the target was opened and before the closing "]}"
\* was written leaves a partial target; a partial target is never opened again
\* nor changed by any later run, so it never becomes a complete document.
C9_PartialTargetStays ==
    [][/\ (FileOpen /\ cpc # "close_file" /\ cpc' = "exited") => Partial(target')
       /\ (Partial(target) /\ ~FileOpen) => (target' = target /\ ~opened')
       /\ (Partial(target0) /\ cpc = "check_target" /\ exit' # "killed")
             => (cpc' = "exited" /\ exit' = "ok")]_vars

\* the run after an interrupted one has skipped the partial file
C9_Witness ==
    /\ runs = <<"killed">> /\ cpc = "exited" /\ exit = "ok"
    /\ Partial(target) /\ Len(target.content) >= 2 /\ target.content[1] = RawHeader
    /\ target = target0 /\ ~opened

(***************************************************************************)
(* Properties of trim_drug (SpecTrim)                                      *)
(***************************************************************************)
Seq2Set(s) == {s[i] : i \in 1..Len(s)}
AllowTop == Seq2Set(TrimmedKeys)
AllowIds == {"primary", "secondary"}
AllowInteraction == {"drugbank_id", "name", "description"}
AllowProperty == {"kind", "value", "unit"}
AllowDosage == {"form", "route", "strength"}
AllowDosing == Seq2Set(DosingKeepKeys) \cup {"openfda_full"}
AllowOpenfda == Seq2Set(OpenfdaKeepKeys)
AllowAnywhere ==
    AllowTop \cup AllowIds \cup AllowInteraction \cup AllowProperty \cup AllowDosage
    \cup AllowDosing \cup AllowOpenfda

\* the keys of every mapping inside a value, at any depth
RECURSIVE DeepKeys(_)
DeepKeys(x) ==
    IF IsDict(x) THEN Keys(x) \cup UNION {DeepKeys(x.v[i].v) : i \in 1..Len(x.v)}
    ELSE IF IsList(x) THEN UNION {DeepKeys(x.v[i]) : i \in 1..Len(x.v)}
    ELSE {}

Trimmed == tpc = "done" /\ IsDict(trimmed)
\* the entries of a sequence field of the result are mappings with keys in allow
EntriesWithin(k, allow) ==
    /\ IsList(Get(trimmed, k))
    /\ \A i \in 1..Len(Get(trimmed, k).v) :
          IsDict(Get(trimmed, k).v[i]) /\ Keys(Get(trimmed, k).v[i]) \subseteq allow

\* C4, as stated: no key outside the allowlists appears anywhere in the output.
C4_NoForeignKeyAnywhere == Trimmed => DeepKeys(trimmed) \subseteq AllowAnywhere

\* C4, amended: when trim_drug returns, the result has the 15 allowlisted keys and
\* every mapping that trim_drug or a simplify_* helper builds (drugbank_ids, the
\* entries of drug_interactions, experimental_properties and dosages, dosing_info
\* and its openfda_full) has only allowlisted keys; values copied verbatim are not
\* filtered.
C4_BuiltMappingsAllowlisted ==
    Trimmed =>
        /\ Keys(trimmed) \subseteq AllowTop
        /\ IsDict(Get(trimmed, "drugbank_ids"))
        /\ Keys(Get(trimmed, "drugbank_ids")) \subseteq AllowIds
        /\ EntriesWithin("drug_interactions", AllowInteraction)
        /\ EntriesWithin("experimental_properties", AllowProperty)
        /\ EntriesWithin("dosages", AllowDosage)
        /\ IsDict(Get(trimmed, "dosing_info"))
        /\ Keys(Get(trimmed, "dosing_info")) \subseteq AllowDosing
        /\ Has(Get(trimmed, "dosing_info"), "openfda_full") =>
              /\ IsDict(Get(Get(trimmed, "dosing_info"), "openfda_full"))
              /\ Keys(Get(Get(trimmed, "dosing_info"), "openfda_full")) \subseteq AllowOpenfda

\* a record with a key outside the allowlist at the top and inside dosing_info
C4_Witness ==
    /\ Trimmed
    /\ Has(drug, "synonyms")
    /\ IsDict(Get(drug, "dosing_info")) /\ Has(Get(drug, "dosing_info"), "label")
    /\ Keys(trimmed) = AllowTop
    /\ ~Has(Get(trimmed, "dosing_info"), "label")

\* C5, as stated: a field missing from the source is never emitted with a null
\* value.
C5_MissingNeverNull ==
    Trimmed => \A k \in AllowTop : ~Has(drug, k) => (Has(trimmed, k) => Get(trimmed, k) # Null)

\* every entry of a sequence field of the result carries exactly the keys of allow
EntriesExactly(k, allow) ==
    \A i \in 1..Len(Get(trimmed, k).v) : Keys(Get(trimmed, k).v[i]) = allow
\* in a filtered mapping no value is null, and a key the source lacks is absent
DropsMissing(res, src) ==
    \A k \in Keys(res) : Get(res, k) # Null /\ Has(src, k)

\* C5, amended: only dosing_info and its openfda_full leave out a field that is
\* missing (or null) in the source. Everywhere else a missing field is emitted:
\* as null for the scalar fields, drugbank_ids.primary and the three fields of
\* every interaction, property and dosage entry; as an empty sequence for groups,
\* food_interactions, drugbank_ids.secondary, categories, drug_interactions,
\* experimental_properties and dosages; as an empty mapping for dosing_info.
C5_MissingFieldsEmitted ==
    Trimmed =>
        /\ Keys(trimmed) = AllowTop
        /\ \A k \in ScalarKeys : ~Has(drug, k) => Get(trimmed, k) = Null
        /\ \A k \in {"groups", "food_interactions", "categories", "drug_interactions",
                     "experimental_properties", "dosages"} :
              ~Has(drug, k) => Get(trimmed, k) = List(<<>>)
        /\ ~Has(drug, "dosing_info") => Get(trimmed, "dosing_info") = Dict(<<>>)
        /\ Keys(Get(trimmed, "drugbank_ids")) = AllowIds
        /\ ~Has(GetD(drug, "drugbank_ids", Dict(<<>>)), "primary") =>
              Get(Get(trimmed, "drugbank_ids"), "primary") = Null
        /\ ~Has(GetD(drug, "drugbank_ids", Dict(<<>>)), "secondary") =>
              Get(Get(trimmed, "drugbank_ids"), "secondary") = List(<<>>)
        /\ EntriesExactly("drug_interactions", AllowInteraction)
        /\ EntriesExactly("experimental_properties", AllowProperty)
        /\ EntriesExactly("dosages", AllowDosage)
        /\ IsDict(Get(drug, "dosing_info")) =>
              /\ DropsMissing(Get(trimmed, "dosing_info"), Get(drug, "dosing_info"))
              /\ Has(Get(trimmed, "dosing_info"), "openfda_full") =>
                    DropsMissing(Get(Get(trimmed, "dosing_info"), "openfda_full"),
                                 Get(Get(drug, "dosing_info"), "openfda_full"))

\* name is missing and emitted as null; an interaction entry lacks two of its
\* fields, which are emitted as null
C5_Witness ==
    /\ Trimmed
    /\ ~Has(drug, "name") /\ Get(trimmed, "name") = Null
    /\ Get(trimmed, "drug_interactions") =
          List(<<Dict(<<Pair("drugbank_id", Null), Pair("name", Foreign),
                        Pair("description", Null)>>),
                 Dict(<<Pair("drugbank_id", Null), Pair("name", Null),
                        Pair("description", Null)>>)>>)

(***************************************************************************)
(* Properties of simplify_categories (SpecCategories)                      *)
(***************************************************************************)
CategoryKeys == <<"category", "mesh_id", "name">>
NonEmptyValue(x) == x \notin {Null, Str(""), List(<<>>), Dict(<<>>)}
\* what one entry contributes: itself if a string; for a mapping the value of the
\* first of the three keys that is present and non-empty, nothing if there is none
Contribution(entry) ==
    IF IsStr(entry) THEN <<entry>>
    ELSE IF IsDict(entry)
    THEN LET hits == {i \in 1..3 : Has(entry, CategoryKeys[i])
                                   /\ NonEmptyValue(Get(entry, CategoryKeys[i]))}
         IN IF hits = {} THEN <<>>
            ELSE <<Get(entry, CategoryKeys[CHOOSE i \in hits : \A j \in hits : i <= j])>>
    ELSE <<>>
RECURSIVE Labels(_)
Labels(entries) ==
    IF entries = <<>> THEN <<>>
    ELSE Labels(SubSeq(entries, 1, Len(entries) - 1)) \o Contribution(entries[Len(entries)])

\* C10: the result is the flat sequence, in input order, of what each entry
\* contributes; a value that is not a sequence gives the empty sequence; the
\* example ["A", {"category": "B"}, {"mesh_id": "C"}, {}] gives ["A", "B", "C"].
C10_CategoriesFlattened ==
    kpc = "done" =>
        /\ catOut = (IF IsList(catIn) THEN List(Labels(catIn.v)) ELSE List(<<>>))
        /\ catIn = SpecExample => catOut = List(<<Str("A"), Str("B"), Str("C")>>)

C10_Witness ==
    /\ kpc = "done" /\ catIn = SpecExample
    /\ catOut = List(<<Str("A"), Str("B"), Str("C")>>)

(***************************************************************************)
(* Properties of the Fetcher (SpecFetcher)                                 *)
(***************************************************************************)
\* C6: a request is issued only when the target is absent and a URL is
\* configured; with the target present, or absent with no URL, ensure_file
\* returns normally with no request issued and the file system unchanged.
C6_RequestOnlyWhenAbsentAndUrl ==
    /\ log # <<>> => (~fs0[call.target].exists /\ ~UrlFalsy(call.url))
    /\ (fpc = "ensure_return" /\ (fs0[call.target].exists \/ UrlFalsy(call.url))) =>
          (log = <<>> /\ fs = fs0 /\ raised = "none" /\ result = "none")

\* the full database is absent and no URL is configured for it
C6_Witness ==
    /\ fpc = "ensure_return" /\ call.target = "full"
    /\ ~fs0.full.exists /\ UrlFalsy(call.url)
    /\ log = <<>> /\ fs = fs0

RequestFailed(r) == r.resp.n = 0 \/ StatusRaises(r.resp.status)

\* C7, as stated: a network exception, a non-success status on the first or on
\* the second request, or an I/O error makes download_file return False, and no
\* exception leaves download_file.
C7_AnyFailureReturnsFalse ==
    /\ raised = "none"
    /\ fpc = "dl_return" =>
          (((\E i \in 1..Len(log) : RequestFailed(log[i])) \/ call.io = "error")
              => result = "False")

\* C7, amended: no exception leaves download_file or main; download_file returns
\* False on a network exception, on a non-success status of the response it uses
\* (the second when a confirmation request was issued, otherwise the first) and
\* on an I/O error, and True otherwise; main always goes on to the full database
\* after the compact one and ends normally.
C7_FailuresNotFatal ==
    /\ raised = "none"
    /\ fpc = "dl_return" =>
          /\ Len(log) >= 1
          /\ result = (IF RequestFailed(log[Len(log)]) \/ call.io = "error"
                       THEN "False" ELSE "True")
    /\ fpc = "main_full" => calls = <<"compact">>
    /\ fpc = "done" => calls = <<"compact", "full">>
    /\ fpc # "done" => ENABLED NextFetcher

\* both downloads were attempted and failed, and main ended
C7_Witness ==
    /\ fpc = "done" /\ raised = "none" /\ calls = <<"compact", "full">>
    /\ ~fs.compact.exists /\ ~UrlFalsy(GetEnv("COMPACT_DATABASE_URL", DEFAULT_COMPACT_URL))
    /\ call.target = "full" /\ result = "False"

FirstCookies == log[1].resp.cookies
WarningCookie(c) == StartsWithDownloadWarning(c) /\ c.value # Str("")
\* the shape of the request log that every form of C8 shares
C8_Requests(confirming) ==
    /\ Len(log) \in {1, 2}
    /\ log[1].url = DownloadUrl(call.url) /\ log[1].params = NoParams
    /\ Len(log) = 2 <=> (log[1].resp.n = 1 /\ confirming # {})
    /\ Len(log) = 2 =>
          /\ log[2].url = log[1].url
          /\ \E i \in confirming :
                log[2].params = Dict(<<Pair("confirm", FirstCookies[i].value)>>)
    /\ result = "True" => fs[call.target] = File(Written(Body(Len(log))))
    /\ fs[call.target].exists =>
          fs[call.target].content \in Prefixes(Written(Body(Len(log))))

\* C8, as stated: one initial request and at most one more; the second is issued
\* if and only if some cookie of the first response has a key starting with
\* download_warning and a non-empty value, and carries that value as confirm; the
\* bytes written come from the second response when issued, else from the first.
C8_SecondIffSomeWarningCookie ==
    fpc = "dl_return" =>
        C8_Requests({i \in 1..Len(FirstCookies) : WarningCookie(FirstCookies[i])})

\* C8, amended: the second request is issued if and only if the first cookie, in
\* the jar's iteration order, whose key starts with download_warning has a
\* non-empty value; later cookies with the prefix are not looked at.
C8_SecondIffFirstWarningCookie ==
    fpc = "dl_return" =>
        C8_Requests({i \in 1..Len(FirstCookies) :
                        /\ WarningCookie(FirstCookies[i])
                        /\ \A j \in 1..(i - 1) : ~StartsWithDownloadWarning(FirstCookies[j])})

\* two cookies with the prefix, a confirmed download written from the second response
C8_Witness ==
    /\ fpc = "dl_return" /\ Len(log) = 2 /\ result = "True"
    /\ Len(FirstCookies) = 2
    /\ \A i \in 1..2 : WarningCookie(FirstCookies[i])
    /\ FirstCookies[1].value # FirstCookies[2].value
    /\ fs[call.target] = File(Written(Body(2)))

====
